---- MODULE Spec2Model ----
(***************************************************************************)
(* PMO Projects Dashboard (betaapp.py): the Streamlit script as a state    *)
(* machine.  Every widget interaction re-runs the whole script; one action *)
(* per interaction, each ending with the full script run.                  *)
(*                                                                         *)
(* Dates are day numbers (1 = 01-Jan-2024); a CSV date cell is text, and   *)
(* parsing and formatting go through the DMY and ISO text tables.          *)
(***************************************************************************)
EXTENDS Integers, Sequences, FiniteSets, TLC

VARIABLES
    today,       \* the wall-clock date
    bundled,     \* the file projects.csv next to the script
    uploaded,    \* the file in the sidebar uploader
    use_sample,  \* the "Use bundled sample data" checkbox
    cache,       \* st.cache_data's store for load_data: key -> returned frame
    sel,         \* the six multiselects of the sidebar
    show_n,      \* the timeline slider
    saved,       \* the last "Download Filtered CSV" the user kept
    n_uploads,   \* files put in the uploader so far
    out          \* what the last script run computed and showed

vars == <<today, bundled, uploaded, use_sample, cache, sel, show_n, saved, n_uploads, out>>

-----------------------------------------------------------------------------
(* Bounds *)

MaxDay == 3       \* the clock runs over days 1..MaxDay
MaxLoadRows == 1  \* rows of a CSV in the ingestion input set
MaxRows == 2      \* rows of a CSV in the filter input set
MaxTlRows == 3    \* rows of a CSV in the timeline and count input sets
MaxSel == 2       \* values ticked in one multiselect
MaxChartSel == 1  \* values ticked in the manager multiselect over the chart input set
MaxTicked == 2    \* multiselects with something ticked at once
MaxSlide == 3     \* slider positions tried: 0..MaxSlide
MaxUploads == 2   \* uploads in one session

-----------------------------------------------------------------------------
(* Schema *)

REQUIRED_COLS ==
    << "ID", "Name", "Project Vendor", "Project Priority", "Business Owner",
       "Project Initiation Date", "Target Completion Date", "Revised Timeline",
       "Objective", "Project Current Status", "Project Category",
       "Project Manager", "Project Custodian" >>

DATE_COLS ==
    << "Project Initiation Date", "Target Completion Date", "Revised Timeline" >>

\* the six sidebar filters, in the order the script applies them
FILTER_COLS ==
    << "Project Current Status", "Project Priority", "Project Category",
       "Business Owner", "Project Manager", "Project Vendor" >>

OVERDUE_EXEMPT == {"Live", "Withdraw"}

Range(s) == {s[i] : i \in DOMAIN s}

\* the subsequence of s at the indices in I, order kept (boolean-mask indexing)
RECURSIVE KeepIdx(_, _, _)
KeepIdx(s, I, i) ==
    IF i > Len(s) THEN <<>>
    ELSE (IF i \in I THEN <<s[i]>> ELSE <<>>) \o KeepIdx(s, I, i + 1)

Select(s, I) == KeepIdx(s, I, 1)

Min2(a, b) == IF a < b THEN a ELSE b

\* s.head(n)
Head_n(s, n) == SubSeq(s, 1, Min2(n, Len(s)))

-----------------------------------------------------------------------------
(* Cells *)

NaN == "<NaN>"   \* a missing value of an object column
NaT == 0         \* a missing value of a datetime column

\* day d written as %d-%b-%Y and as pandas writes a datetime to CSV
DMY == << "01-Jan-2024", "02-Jan-2024", "03-Jan-2024", "04-Jan-2024", "05-Jan-2024" >>
ISO == << "2024-01-01", "2024-01-02", "2024-01-03", "2024-01-04", "2024-01-05" >>

\* pd.to_datetime(cell, format="%d-%b-%Y", errors="coerce")
to_datetime(cell) ==
    IF \E d \in DOMAIN DMY : DMY[d] = cell
    THEN CHOOSE d \in DOMAIN DMY : DMY[d] = cell
    ELSE NaT

\* read_csv: an empty cell is a missing value
read_cell(text) == IF text = "" THEN NaN ELSE text

\* to_csv: a missing value is written empty, a datetime in ISO form
write_cell(col, v) ==
    IF col \in Range(DATE_COLS)
    THEN (IF v = NaT THEN "" ELSE ISO[v])
    ELSE (IF v = NaN THEN "" ELSE v)

-----------------------------------------------------------------------------
(* Files and frames *)

\* a file: a header line and the rows' cells as text, or no such file
NoFile == [exists |-> FALSE, columns |-> <<>>, rows |-> <<>>]

CsvFile(columns, rows) == [exists |-> TRUE, columns |-> columns, rows |-> rows]

OK == "ok"

\* pd.read_csv(file)
read_csv(file) ==
    IF ~file.exists
    THEN [raised |-> "FileNotFoundError", columns |-> <<>>, rows |-> <<>>]
    ELSE [raised |-> OK,
          columns |-> file.columns,
          rows |-> [i \in DOMAIN file.rows |->
                      [c \in Range(file.columns) |-> read_cell(file.rows[i][c])]]]

\* mutant: the check stops at the first absent column
MissingCols_first_only(columns) ==
    Head_n(Select(REQUIRED_COLS,
                  {i \in DOMAIN REQUIRED_COLS : REQUIRED_COLS[i] \notin Range(columns)}), 1)

\* [c for c in REQUIRED_COLS if c not in df.columns]
MissingCols(columns) ==
    Select(REQUIRED_COLS, {i \in DOMAIN REQUIRED_COLS : REQUIRED_COLS[i] \notin Range(columns)})

\* df[col] = pd.to_datetime(df[col], ...) for the three date columns
ParseDates(row) ==
    [c \in DOMAIN row |-> IF c \in Range(DATE_COLS) THEN to_datetime(row[c]) ELSE row[c]]

\* mutant: the fillna the other way round, target first
PlannedEnd_target_first(row) ==
    IF row["Target Completion Date"] # NaT THEN row["Target Completion Date"]
    ELSE row["Revised Timeline"]

\* df["Revised Timeline"].fillna(df["Target Completion Date"])
PlannedEnd(row) ==
    IF row["Revised Timeline"] # NaT THEN row["Revised Timeline"]
    ELSE row["Target Completion Date"]

\* mutant: <= for <, a project due today is overdue
Overdue_due_today(row, pe, day) ==
    /\ pe # NaT
    /\ pe <= day
    /\ ~(row["Project Current Status"] \in OVERDUE_EXEMPT)

\* notna & (planned end < today) & ~isin(["Live", "Withdraw"])
Overdue(row, pe, day) ==
    /\ pe # NaT
    /\ pe < day
    /\ ~(row["Project Current Status"] \in OVERDUE_EXEMPT)

Derive(row, day) ==
    LET r == ParseDates(row)
        pe == PlannedEnd(r)
    IN  r @@ ("Planned End" :> pe) @@ ("Overdue" :> Overdue(r, pe, day))

\* the body of load_data, run at date day
load_data_body(file, day) ==
    LET csv == read_csv(file)
        missing == MissingCols(csv.columns)
    IN  IF csv.raised # OK
        THEN [raised |-> csv.raised, missing |-> <<>>, df |-> <<>>]
        ELSE IF missing # <<>>
        THEN [raised |-> "ValueError", missing |-> missing, df |-> <<>>]
        ELSE [raised |-> OK, missing |-> <<>>,
              df |-> [i \in DOMAIN csv.rows |-> Derive(csv.rows[i], day)]]

-----------------------------------------------------------------------------
(* The cache around load_data *)

SAMPLE_PATH == "projects.csv"

\* st.cache_data keys a call by its argument: a path by its text, an uploaded
\* file by its content
SampleKey == [path |-> SAMPLE_PATH, content |-> NoFile]
UploadKey(file) == [path |-> "", content |-> file]

Cached(cch, key) == \E e \in cch : e.key = key
Lookup(cch, key) == CHOOSE e \in cch : e.key = key

\* @st.cache_data load_data(file): a stored frame is returned as it was computed;
\* a call that raises stores nothing
load_data(cch, key, file, day) ==
    IF Cached(cch, key)
    THEN [raised |-> OK, missing |-> <<>>, df |-> Lookup(cch, key).df,
          hit |-> TRUE, cache |-> cch]
    ELSE LET r == load_data_body(file, day)
         IN  [raised |-> r.raised, missing |-> r.missing, df |-> r.df, hit |-> FALSE,
              cache |-> IF r.raised = OK THEN cch \cup {[key |-> key, df |-> r.df]}
                        ELSE cch]

-----------------------------------------------------------------------------
(* Filtering and aggregation *)

Column(df, c) == [i \in DOMAIN df |-> df[i][c]]

\* sorted(df[c].dropna().unique().tolist()): what a multiselect offers
Options(df, c) == Range(Column(df, c)) \ {NaN}

NoSel == [c \in Range(FILTER_COLS) |-> {}]

\* if <sel>: filtered = filtered[filtered[col].isin(<sel>)], one filter after another
RECURSIVE ApplyFilters(_, _, _)
ApplyFilters(df, s, k) ==
    IF k > Len(FILTER_COLS) THEN df
    ELSE LET c == FILTER_COLS[k]
         IN  ApplyFilters(IF s[c] # {}
                          THEN Select(df, {i \in DOMAIN df : df[i][c] \in s[c]})
                          ELSE df,
                          s, k + 1)

\* mutant: the status filter is left out
Filtered_without_status(df, s) == ApplyFilters(df, s, 2)

Filtered(df, s) == ApplyFilters(df, s, 1)

\* filtered[filtered["Overdue"] == True]
OverdueRows(df) == Select(df, {i \in DOMAIN df : df[i]["Overdue"]})

\* every arrangement of I in ascending order of k; the default sort kind is not
\* stable, so equal keys may come out in any order
RECURSIVE Orders(_, _)
Orders(I, k) ==
    IF I = {} THEN {<<>>}
    ELSE LET least == {i \in I : \A j \in I : k[i] <= k[j]}
         IN  UNION {{<<i>> \o o : o \in Orders(I \ {i}, k)} : i \in least}

Occurrences(vals, v) == Cardinality({i \in DOMAIN vals : vals[i] = v})

\* mutant: ascending for descending
value_counts_ascending(vals) ==
    LET U == Range(vals) \ {NaN}
        k == [u \in U |-> Occurrences(vals, u)]
    IN  {[j \in DOMAIN o |-> <<o[j], Occurrences(vals, o[j])>>] : o \in Orders(U, k)}

\* Series.value_counts(): (value, count) of the non-missing values, by descending count
value_counts(vals) ==
    LET U == Range(vals) \ {NaN}
        k == [u \in U |-> 0 - Occurrences(vals, u)]
    IN  {[j \in DOMAIN o |-> <<o[j], Occurrences(vals, o[j])>>] : o \in Orders(U, k)}

TOP_N == 10

\* .value_counts().head(10)
TopCounts(vc) == Head_n(vc, TOP_N)

\* mutant: dropna on the initiation date alone
TimelineRows_start_only(df, n) ==
    Head_n(Select(df, {i \in DOMAIN df : df[i]["Project Initiation Date"] # NaT}), n)

\* filtered.dropna(subset=["Project Initiation Date", "Planned End"]).head(show_n)
TimelineRows(df, n) ==
    Head_n(Select(df, {i \in DOMAIN df : /\ df[i]["Project Initiation Date"] # NaT
                                         /\ df[i]["Planned End"] # NaT}), n)

\* timeline_df.sort_values("Project Initiation Date"), drawn when there is a row
TimelineFigure(tl) ==
    {[j \in DOMAIN o |-> tl[o[j]]] :
        o \in Orders(DOMAIN tl, [i \in DOMAIN tl |-> tl[i]["Project Initiation Date"]])}

SLIDER_CAP == 50
SLIDER_DEFAULT == 20

SliderMax(df) == Min2(SLIDER_CAP, Len(df))
SliderDefault(df) == Min2(SLIDER_DEFAULT, Len(df))

\* df_in.to_csv(index=False) of filtered[REQUIRED_COLS]
to_csv(df) ==
    CsvFile(REQUIRED_COLS,
            [i \in DOMAIN df |->
                [c \in Range(REQUIRED_COLS) |-> write_cell(c, df[i][c])]])

-----------------------------------------------------------------------------
(* One run of the script *)

\* what the page ends with
DONE == "done"                          \* the last line was reached
NAME_ERROR == "NameError"               \* line 205: to_csv_bytes is not defined
SAMPLE_NOT_FOUND == "Sample file not found. Please upload your CSV."

NoRun ==
    [run_day |-> 0, source |-> "", raised |-> "", missing |-> <<>>, hit |-> FALSE,
     shown |-> "", df |-> <<>>, filtered |-> <<>>, overdue_df |-> <<>>,
     status_counts |-> <<>>, mgr_all |-> <<>>, mgr_counts |-> <<>>,
     timeline_df |-> <<>>, fig_tl |-> <<>>, export |-> NoFile]

\* the run drew the sidebar filters and everything below them
Reached(o) == o.shown \in {DONE, NAME_ERROR}

\* a widget keeps its value from one run to the next while it is drawn with the same
\* parameters; drawn with other options, or not drawn in the run before, it is new
\* and holds its default
KeepSel(prev, df, s) ==
    [c \in Range(FILTER_COLS) |->
        IF Reached(prev) /\ Options(prev.df, c) = Options(df, c) THEN s[c] ELSE {}]

KeepSlider(prev, filtered, n) ==
    IF Reached(prev) /\ Len(prev.filtered) = Len(filtered) THEN n
    ELSE SliderDefault(filtered)

\* lines 43-50: the uploaded file when there is one and the box is unticked, else the
\* bundled file, whose every exception becomes the "not found" message and st.stop()
Halted(day, fromUpload, ld) ==
    [NoRun EXCEPT !.run_day = day,
                  !.source = IF fromUpload THEN "upload" ELSE "sample",
                  !.raised = ld.raised,
                  !.missing = ld.missing,
                  !.shown = IF fromUpload THEN ld.raised ELSE SAMPLE_NOT_FOUND]

\* lines 52-205 on the loaded frame
Rendered(day, fromUpload, ld, s, n) ==
    LET filtered == Filtered(ld.df, s)
        overdue_df == OverdueRows(filtered)
        defined == overdue_df # <<>>     \* to_csv_bytes is defined in the else branch
        tl == TimelineRows(filtered, n)
    IN  {[run_day |-> day,
          source |-> IF fromUpload THEN "upload" ELSE "sample",
          raised |-> OK, missing |-> <<>>, hit |-> ld.hit,
          shown |-> IF defined THEN DONE ELSE NAME_ERROR,
          df |-> ld.df, filtered |-> filtered, overdue_df |-> overdue_df,
          status_counts |-> sc, mgr_all |-> mc, mgr_counts |-> TopCounts(mc),
          timeline_df |-> tl, fig_tl |-> fig,
          export |-> IF defined THEN to_csv(filtered) ELSE NoFile] :
            sc \in value_counts(Column(filtered, "Project Current Status")),
            mc \in value_counts(Column(filtered, "Project Manager")),
            fig \in IF tl = <<>> THEN {<<>>} ELSE TimelineFigure(tl)}

\* the whole script: the new cache, widget values and page
RunScript(day, bun, upl, useS, cch, s, n, prev) ==
    LET fromUpload == upl.exists /\ ~useS
        ld == IF fromUpload THEN load_data(cch, UploadKey(upl), upl, day)
              ELSE load_data(cch, SampleKey, bun, day)
    IN  IF ld.raised # OK
        THEN {[cache |-> ld.cache, sel |-> NoSel, show_n |-> 0,
               out |-> Halted(day, fromUpload, ld)]}
        ELSE LET s2 == KeepSel(prev, ld.df, s)
                 n2 == KeepSlider(prev, Filtered(ld.df, s2), n)
             IN  {[cache |-> ld.cache, sel |-> s2, show_n |-> n2, out |-> o] :
                     o \in Rendered(day, fromUpload, ld, s2, n2)}

Step(r) ==
    /\ cache' = r.cache
    /\ sel' = r.sel
    /\ show_n' = r.show_n
    /\ out' = r.out

-----------------------------------------------------------------------------
(* Interactions; each re-runs the script *)

NoSaved == [file |-> NoFile, table |-> <<>>, day |-> 0]

\* the session opens with a first run: no upload, the box ticked (value=not uploaded)
Start(files, days) ==
    /\ today \in days
    /\ bundled \in files
    /\ uploaded = NoFile
    /\ use_sample = TRUE
    /\ saved = NoSaved
    /\ n_uploads = 0
    /\ \E r \in RunScript(today, bundled, NoFile, TRUE, {}, NoSel, 0, NoRun) :
          /\ cache = r.cache
          /\ sel = r.sel
          /\ show_n = r.show_n
          /\ out = r.out

\* midnight passes; nothing runs
Tick ==
    /\ today < MaxDay
    /\ today' = today + 1
    /\ UNCHANGED <<bundled, uploaded, use_sample, cache, sel, show_n, saved, n_uploads, out>>

Rerun ==
    /\ \E r \in RunScript(today, bundled, uploaded, use_sample, cache, sel, show_n, out) :
          Step(r)
    /\ UNCHANGED <<today, bundled, uploaded, use_sample, saved, n_uploads>>

\* the checkbox's default is "not uploaded": when that flips the box is a new widget
Put(f) ==
    /\ n_uploads < MaxUploads
    /\ f # uploaded
    /\ uploaded' = f
    /\ use_sample' = IF uploaded.exists THEN use_sample ELSE FALSE
    /\ n_uploads' = n_uploads + 1
    /\ \E r \in RunScript(today, bundled, f, use_sample', cache, sel, show_n, out) : Step(r)
    /\ UNCHANGED <<today, bundled, saved>>

UploadFile(files) == \E f \in files : Put(f)

UploadSaved == saved.file.exists /\ Put(saved.file)

ClearUpload ==
    /\ uploaded.exists
    /\ uploaded' = NoFile
    /\ use_sample' = TRUE
    /\ \E r \in RunScript(today, bundled, NoFile, TRUE, cache, sel, show_n, out) : Step(r)
    /\ UNCHANGED <<today, bundled, saved, n_uploads>>

ToggleSample ==
    /\ use_sample' = ~use_sample
    /\ \E r \in RunScript(today, bundled, uploaded, ~use_sample, cache, sel, show_n, out) :
          Step(r)
    /\ UNCHANGED <<today, bundled, uploaded, saved, n_uploads>>

\* one click in a multiselect ticks or unticks one of its options
SelectFilters(cols, most) ==
    /\ Reached(out)
    /\ \E c \in cols : \E v \in Options(out.df, c) :
          LET S == IF v \in sel[c] THEN sel[c] \ {v} ELSE sel[c] \cup {v}
          IN  /\ Cardinality(S) <= most
              /\ Cardinality({d \in Range(FILTER_COLS) \ {c} : sel[d] # {}}) < MaxTicked
              /\ \E r \in RunScript(today, bundled, uploaded, use_sample, cache,
                                     [sel EXCEPT ![c] = S], show_n, out) : Step(r)
    /\ UNCHANGED <<today, bundled, uploaded, use_sample, saved, n_uploads>>

MoveSlider ==
    /\ Reached(out)
    /\ \E n \in 0 .. Min2(SliderMax(out.filtered), MaxSlide) :
          /\ n # show_n
          /\ \E r \in RunScript(today, bundled, uploaded, use_sample, cache, sel, n, out) :
                Step(r)
    /\ UNCHANGED <<today, bundled, uploaded, use_sample, saved, n_uploads>>

\* the button hands over the bytes of this run and the click re-runs the script
DownloadFiltered ==
    /\ out.shown = DONE
    /\ saved' = [file |-> out.export, table |-> out.filtered, day |-> out.run_day]
    /\ \E r \in RunScript(today, bundled, uploaded, use_sample, cache, sel, show_n, out) :
          Step(r)
    /\ UNCHANGED <<today, bundled, uploaded, use_sample, n_uploads>>

-----------------------------------------------------------------------------
(* Input sets *)

Row(vendor, priority, owner, init, target, revised, status, category, manager) ==
    [c \in Range(REQUIRED_COLS) |->
        CASE c = "ID" -> "1"
          [] c = "Name" -> "Project"
          [] c = "Project Vendor" -> vendor
          [] c = "Project Priority" -> priority
          [] c = "Business Owner" -> owner
          [] c = "Project Initiation Date" -> init
          [] c = "Target Completion Date" -> target
          [] c = "Revised Timeline" -> revised
          [] c = "Objective" -> "Deliver"
          [] c = "Project Current Status" -> status
          [] c = "Project Category" -> category
          [] c = "Project Manager" -> manager
          [] OTHER -> "PMO"]

\* the sequences over S of length lo..hi
Seqs(S, lo, hi) == UNION {[1 .. k -> S] : k \in lo .. hi}

\* a well-formed file of the given rows
Csv(rows) == CsvFile(REQUIRED_COLS, rows)

\* the same file without the columns in D
Without(file, D) ==
    LET cols == Select(REQUIRED_COLS,
                       {i \in DOMAIN REQUIRED_COLS : REQUIRED_COLS[i] \notin D})
    IN  CsvFile(cols, [i \in DOMAIN file.rows |->
                          [c \in Range(cols) |-> file.rows[i][c]]])

\* ingestion: every kind of status and of date cell, headers with columns left out
LoadRows ==
    {Row("Acme", "High", "Eve", DMY[1], t, r, st, "IT", "Ann") :
        t \in {"", DMY[1], DMY[2], ISO[1]},
        r \in {"", "TBC", DMY[2]},
        st \in {"Live", "Withdraw", "In Progress", ""}}

DropCols == {"ID", "Revised Timeline", "Project Custodian"}

LoadFiles ==
    {NoFile} \cup
    {Without(Csv(rows), D) : rows \in Seqs(LoadRows, 1, MaxLoadRows), D \in SUBSET DropCols}

\* filtering: rows with at most one of the six filter columns blank, and a row of
\* a second status
Blanks == {q \in [1 .. 6 -> BOOLEAN] : Cardinality({i \in 1 .. 6 : q[i]}) <= 1}

FilterRows ==
    {Row(IF q[1] THEN "" ELSE "Acme", IF q[2] THEN "" ELSE "High",
         IF q[3] THEN "" ELSE "Eve", DMY[1], DMY[1], "",
         IF q[6] THEN "" ELSE "Live",
         IF q[4] THEN "" ELSE "IT", IF q[5] THEN "" ELSE "Ann") : q \in Blanks}
    \cup {Row("Acme", "High", "Eve", DMY[1], DMY[1], "", "On Hold", "IT", "Ann")}

FilterFiles == {Csv(rows) : rows \in Seqs(FilterRows, 0, MaxRows)}

\* timeline: rows with and without each of the two dates, out of date order
TimelineInputRows ==
    {Row("Acme", "High", "Eve", i, t, "", "Live", "IT", "Ann") :
        i \in {"", DMY[1], DMY[2]}, t \in {"", DMY[3]}}

\* counts: two managers and a blank, two statuses, no dates
CountRows ==
    {Row("Acme", "High", "Eve", "", "", "", st, "IT", m) :
        st \in {"Live", "On Hold"}, m \in {"Ann", "Bob", ""}}

\* eleven managers, more than the chart keeps: the first two on one row each, manager
\* j > 1 on j - 1 rows
MANAGERS == << "M01", "M02", "M03", "M04", "M05", "M06", "M07", "M08", "M09", "M10", "M11" >>

RECURSIVE ManagerColumn(_)
ManagerColumn(j) ==
    IF j > Len(MANAGERS) THEN <<>>
    ELSE [i \in 1 .. (IF j = 1 THEN 1 ELSE j - 1) |-> MANAGERS[j]] \o ManagerColumn(j + 1)

TopNFile ==
    Csv([i \in DOMAIN ManagerColumn(1) |->
            Row("Acme", "High", "Eve", "", "", "", "Live", "IT", ManagerColumn(1)[i])])

ChartFiles ==
    {Csv(rows) : rows \in Seqs(TimelineInputRows, 0, MaxTlRows)}
    \cup {Csv(rows) : rows \in Seqs(CountRows, 1, MaxTlRows)}
    \cup {TopNFile}

\* a session: a sample that is absent, well-formed, or short of a column; uploads that
\* are well-formed (with and without a row that falls overdue) or short of a column
SampleFile ==
    Csv(<< Row("Acme", "High", "Eve", DMY[2], DMY[2], "", "In Progress", "IT", "Ann"),
           Row("Acme", "High", "Eve", DMY[1], DMY[1], "", "Live", "IT", "Ann") >>)

LateFile ==
    Csv(<< Row("Acme", "High", "Eve", DMY[1], DMY[3], DMY[1], "On Hold", "IT", "") >>)

SessionSamples == {NoFile, SampleFile, Without(SampleFile, {"ID"})}

SessionUploads == {LateFile, Without(LateFile, {"Project Manager"})}

-----------------------------------------------------------------------------
(* Specifications *)

\* a session of the dashboard
Init == Start(SessionSamples, 1 .. MaxDay)

Next ==
    \/ Tick
    \/ Rerun
    \/ UploadFile(SessionUploads)
    \/ UploadSaved
    \/ ClearUpload
    \/ ToggleSample
    \/ SelectFilters({"Project Current Status"}, MaxSel)
    \/ DownloadFiltered

Spec == Init /\ [][Next]_vars

\* ingestion over LoadFiles, on every day
InitLoad == Start(LoadFiles, 1 .. MaxDay)
NextLoad == Tick \/ Rerun
SpecLoad == InitLoad /\ [][NextLoad]_vars

\* the sidebar filters over FilterFiles
InitFilter == Start(FilterFiles, {1})
NextFilter == SelectFilters(Range(FILTER_COLS), MaxSel)
SpecFilter == InitFilter /\ [][NextFilter]_vars

\* the charts and the timeline over ChartFiles
InitCharts == Start(ChartFiles, {1})
NextCharts ==
    \/ SelectFilters({"Project Manager"}, MaxChartSel)
    \/ MoveSlider
SpecCharts == InitCharts /\ [][NextCharts]_vars

-----------------------------------------------------------------------------
(* Properties *)

\* the file the last run ingested
Input == IF out.source = "upload" THEN uploaded ELSE bundled

Rows(df) == {df[i] : i \in DOMAIN df}

IsDmy(text) == \E d \in DOMAIN DMY : DMY[d] = text
DayOf(text) == CHOOSE d \in DOMAIN DMY : DMY[d] = text

\* the overdue rule at date day, a blank status not being an exempt one
OverdueAt(r, day) ==
    /\ r["Planned End"] # NaT
    /\ r["Planned End"] < day
    /\ r["Project Current Status"] \notin {"Live", "Withdraw"}

\* C1 (as amended): in a frame load_data computed in this run, a row is overdue iff
\* its planned end is present and strictly before the date of the run and its status
\* is neither Live nor Withdraw; a row with a blank status is not exempt.
C1_OverdueRule ==
    (out.raised = OK /\ ~out.hit) =>
        \A r \in Rows(out.df) : r["Overdue"] = OverdueAt(r, out.run_day)

\* C1 (as claimed): the same rule, and every row with a blank status is not overdue.
C1_BlankStatusNeverOverdue ==
    (out.raised = OK /\ ~out.hit) =>
        \A r \in Rows(out.df) :
            /\ r["Overdue"] = OverdueAt(r, out.run_day)
            /\ r["Project Current Status"] = NaN => ~r["Overdue"]

\* C1: a frame computed on day 3 with a blank-status row due on day 2, overdue.
C1_Witness ==
    /\ out.raised = OK /\ ~out.hit
    /\ \E r \in Rows(out.df) :
          /\ r["Project Current Status"] = NaN
          /\ r["Planned End"] = 2 /\ out.run_day = 3
          /\ r["Overdue"]

\* C2: a readable input short of a required header makes load_data raise the error
\* that lists exactly the absent required headers, once each, and nothing is made of
\* the input: no frame, no cache entry, nothing filtered or exported.
C2_SchemaError ==
    LET absent == Range(REQUIRED_COLS) \ Range(Input.columns)
    IN  (Input.exists /\ absent # {}) =>
            /\ out.raised = "ValueError"
            /\ Range(out.missing) = absent
            /\ Len(out.missing) = Cardinality(absent)
            /\ out.df = <<>> /\ out.filtered = <<>> /\ out.export = NoFile
            /\ \A e \in cache : e.key # (IF out.source = "upload" THEN UploadKey(uploaded)
                                                                  ELSE SampleKey)

\* C2: a readable input short of two required headers, both listed.
C2_Witness ==
    /\ Input.exists
    /\ out.raised = "ValueError"
    /\ Range(out.missing) = {"ID", "Project Custodian"}

\* C7: on an input with every required header load_data succeeds with one row per
\* input row, and a row's planned end is its revised timeline when that cell is a
\* day-Mon-year date, else its target completion date when that cell is one, else
\* missing; a blank or malformed date cell is a missing date.
C7_PlannedEnd ==
    (Input.exists /\ Range(REQUIRED_COLS) \subseteq Range(Input.columns)) =>
        /\ out.raised = OK
        /\ Len(out.df) = Len(Input.rows)
        /\ \A i \in DOMAIN out.df :
              LET rev == Input.rows[i]["Revised Timeline"]
                  tgt == Input.rows[i]["Target Completion Date"]
              IN  /\ \A c \in Range(DATE_COLS) :
                        out.df[i][c] = (IF IsDmy(Input.rows[i][c])
                                        THEN DayOf(Input.rows[i][c]) ELSE NaT)
                  /\ out.df[i]["Planned End"] =
                        (IF IsDmy(rev) THEN DayOf(rev)
                         ELSE IF IsDmy(tgt) THEN DayOf(tgt) ELSE NaT)

\* C7: a row whose revised timeline is malformed and whose target date parses.
C7_Witness ==
    /\ out.raised = OK
    /\ \E i \in DOMAIN out.df :
          /\ Input.rows[i]["Revised Timeline"] = "TBC"
          /\ Input.rows[i]["Target Completion Date"] = DMY[2]
          /\ out.df[i]["Planned End"] = 2

\* the rows of df that pass every filter with something ticked
Passing(df, s) ==
    {i \in DOMAIN df : \A c \in Range(FILTER_COLS) : s[c] = {} \/ df[i][c] \in s[c]}

\* C3: the filtered table is the rows of the frame, in the frame's order, whose value
\* in every filter with something ticked is one of the ticked values; no kept row is
\* blank in such a filter; with nothing ticked anywhere it is the whole frame.
C3_Filtered ==
    Reached(out) =>
        /\ out.filtered = Select(out.df, Passing(out.df, sel))
        /\ \A r \in Rows(out.filtered) : \A c \in Range(FILTER_COLS) :
              sel[c] # {} => r[c] # NaN
        /\ sel = NoSel => out.filtered = out.df

\* C3: two filters ticked, two statuses ticked, one of two rows kept, a row blank
\* in a ticked filter.
C3_Witness ==
    /\ Reached(out)
    /\ Cardinality({c \in Range(FILTER_COLS) : sel[c] # {}}) >= 2
    /\ Cardinality(sel["Project Current Status"]) = 2
    /\ Len(out.df) = 2 /\ Len(out.filtered) = 1
    /\ \E r \in Rows(out.df) : \E c \in Range(FILTER_COLS) : sel[c] # {} /\ r[c] = NaN

\* the rows of df with both timeline dates
Dated(df) ==
    {i \in DOMAIN df : df[i]["Project Initiation Date"] # NaT /\ df[i]["Planned End"] # NaT}

\* the first n of them in the frame's order
FirstDated(df, n) == {i \in Dated(df) : Cardinality({j \in Dated(df) : j <= i}) <= n}

IsPermutation(a, b) ==
    /\ Len(a) = Len(b)
    /\ \E p \in [DOMAIN a -> DOMAIN a] :
          /\ \A i, j \in DOMAIN a : i # j => p[i] # p[j]
          /\ \A i \in DOMAIN a : a[i] = b[p[i]]

\* C4 (as amended): the slider is within 0..min(50, rows); the timeline's rows are the
\* first show_n rows, in the order of the filtered table, among its rows with both
\* dates: at most show_n rows, none short of a date; and the figure draws exactly
\* those rows in ascending order of initiation date.
C4_TruncateThenSort ==
    Reached(out) =>
        /\ show_n \in 0 .. Min2(SLIDER_CAP, Len(out.filtered))
        /\ out.timeline_df = Select(out.filtered, FirstDated(out.filtered, show_n))
        /\ Len(out.timeline_df) <= show_n
        /\ \A r \in Rows(out.timeline_df) :
              r["Project Initiation Date"] # NaT /\ r["Planned End"] # NaT
        /\ IsPermutation(out.fig_tl, out.timeline_df)
        /\ \A j, k \in DOMAIN out.fig_tl :
              j < k => out.fig_tl[j]["Project Initiation Date"]
                         <= out.fig_tl[k]["Project Initiation Date"]

\* C4 (as claimed): at most show_n rows, none short of a date, and no row with both
\* dates that is left out starts earlier than a row that is shown.
C4_SortThenTruncate ==
    Reached(out) =>
        /\ Len(out.timeline_df) <= show_n
        /\ \A r \in Rows(out.timeline_df) :
              r["Project Initiation Date"] # NaT /\ r["Planned End"] # NaT
        /\ \A i \in Dated(out.filtered) \ FirstDated(out.filtered, show_n) :
              \A r \in Rows(out.fig_tl) :
                 ~(out.filtered[i]["Project Initiation Date"] < r["Project Initiation Date"])

\* C4: three dated rows, the slider at 2, the third row earlier than the first.
C4_Witness ==
    /\ Reached(out)
    /\ show_n = 2
    /\ Len(out.filtered) = 3 /\ Cardinality(Dated(out.filtered)) = 3
    /\ Len(out.timeline_df) = 2
    /\ out.fig_tl # out.timeline_df
    /\ out.filtered[3]["Project Initiation Date"] < out.filtered[1]["Project Initiation Date"]

\* vc lists each non-missing value of vals once, with the number of rows holding it,
\* in descending order of that number
CountsOf(vc, vals) ==
    /\ {vc[j][1] : j \in DOMAIN vc} = Range(vals) \ {NaN}
    /\ Len(vc) = Cardinality(Range(vals) \ {NaN})
    /\ \A j \in DOMAIN vc : vc[j][2] = Cardinality({i \in DOMAIN vals : vals[i] = vc[j][1]})
    /\ \A j, k \in DOMAIN vc : j < k => vc[j][2] >= vc[k][2]

FirstAt(vals, v) == CHOOSE i \in DOMAIN vals : vals[i] = v /\ \A j \in 1 .. i - 1 : vals[j] # v

\* equal counts come in the order their values first appear in vals
TiesByFirstSeen(vc, vals) ==
    \A j, k \in DOMAIN vc :
        (j < k /\ vc[j][2] = vc[k][2]) => FirstAt(vals, vc[j][1]) < FirstAt(vals, vc[k][1])

\* C9 (as amended): the status and manager counts hold one (value, count) pair per
\* distinct non-missing value, the count being the number of rows with the value, in
\* descending order of count, equal counts in no fixed order; the manager chart is
\* the first 10 entries of the manager counts (all of them when there are fewer).
C9_Counts ==
    Reached(out) =>
        /\ CountsOf(out.status_counts, Column(out.filtered, "Project Current Status"))
        /\ CountsOf(out.mgr_all, Column(out.filtered, "Project Manager"))
        /\ Len(out.mgr_counts) = Min2(10, Len(out.mgr_all))
        /\ \A j \in DOMAIN out.mgr_counts : out.mgr_counts[j] = out.mgr_all[j]

\* C9 (as claimed): the same, equal counts being in first-encountered order.
C9_TiesFirstEncountered ==
    Reached(out) =>
        /\ C9_Counts
        /\ TiesByFirstSeen(out.status_counts, Column(out.filtered, "Project Current Status"))
        /\ TiesByFirstSeen(out.mgr_all, Column(out.filtered, "Project Manager"))

\* C9: eleven managers counted, ten charted, the tenth and eleventh counts equal.
C9_Witness ==
    /\ Reached(out)
    /\ Len(out.mgr_all) = 11 /\ Len(out.mgr_counts) = 10
    /\ out.mgr_all[1] = <<"M11", 10>>
    /\ out.mgr_all[10][2] = out.mgr_all[11][2]

\* C5 (as claimed): when the uploaded file is the kept export of a filtered table, the
\* frame loaded from it has that table's rows: the 13 columns, the three dates as
\* parsed, the planned end, and (re-ingested on the day of the export) the overdue flag.
C5_RoundTrip ==
    (saved.file.exists /\ uploaded = saved.file /\ out.source = "upload") =>
        /\ out.raised = OK
        /\ Len(out.df) = Len(saved.table)
        /\ \A i \in DOMAIN out.df :
              /\ \A c \in Range(REQUIRED_COLS) \cup {"Planned End"} :
                    out.df[i][c] = saved.table[i][c]
              /\ out.run_day = saved.day => out.df[i]["Overdue"] = saved.table[i]["Overdue"]

\* C6 (as claimed): a readable source short of a column ends the run with the schema
\* error on the page, and the "not found" message is shown only when the source could
\* not be read.
C6_ErrorsKeptApart ==
    /\ out.raised = "ValueError" => out.shown = "ValueError"
    /\ out.shown = SAMPLE_NOT_FOUND => out.raised = "FileNotFoundError"

\* C8 (as claimed): the overdue flags a run works with are those of the overdue rule
\* at the date of that run.
C8_OverdueAtRunDate ==
    Reached(out) => \A r \in Rows(out.df) : r["Overdue"] = OverdueAt(r, out.run_day)

\* C10 (as claimed): a run whose ingestion succeeded reaches the last line and hands
\* out the export of the filtered table.
C10_RunCompletes ==
    out.raised = OK => (out.shown = DONE /\ out.export = to_csv(out.filtered))

====
